---------------------------- MODULE Spec2Model ----------------------------
(***************************************************************************)
(* Model of render.py: the frame loop of the stress-strain / CRF / VNI     *)
(* animation.  Per frame index i the script computes the scenario values   *)
(* (segment, crf, vt, strain, crack), draws one frame from them and        *)
(* appends it to the video writer; after the last frame it closes the      *)
(* writer.                                                                 *)
(*                                                                         *)
(* Reals are fixed-point integers with six decimals: the value v is the    *)
(* integer v * ONE.  All products and quotients are computed in pieces so  *)
(* that no intermediate value leaves the 32-bit range.                     *)
(***************************************************************************)
EXTENDS Integers, Sequences, FiniteSets, TLC

VARIABLES
    cfg,        \* the module-level CONFIG constants the loop reads
    pc,         \* position of the script: for, compute, draw, close, done, crashed
    nxt,        \* the range iterator: the next index it will yield
    i,          \* loop variable
    t,          \* elapsed time of frame i
    phase01,    \* breathing phase of frame i
    seg,        \* segment 1 (healthy), 2 (low CRF), 3 (VNI); 0 before the first frame
    crf,
    vt,
    strain,
    crack,
    badge_col,
    appended,   \* number of frames the writer has received
    last,       \* the frame most recently handed to writer.append_data
    closed,     \* writer.close() has run
    memo        \* first frame state observed for each probed index

vars == <<cfg, pc, nxt, i, t, phase01, seg, crf, vt, strain, crack,
          badge_col, appended, last, closed, memo>>

-----------------------------------------------------------------------------
(* Fixed-point arithmetic *)

ONE == 1000 * 1000

\* IEEE +inf, the result numpy gives for a float64 division by zero
INF == 2147483647

\* The one element of a singleton set.  Operands are bound through
\* { e(x) : x \in {a} } so that each is evaluated once, as a value.
The(S) == CHOOSE r \in S : TRUE

\* floor(a * b / ONE) for 0 <= a, b < 2^22, by splitting both in base 1000
MulFix(a, b) ==
    The({ LET ah == x \div 1000
              al == x % 1000
              bh == y \div 1000
              bl == y % 1000
              mid == ah * bl + al * bh
          IN  ah * bh + (mid + (al * bl) \div 1000) \div 1000
          : x \in {a}, y \in {b} })

\* the pair <<hi, lo>> with a * b = hi * ONE + lo and 0 <= lo < ONE
MulWide(a, b) ==
    The({ LET ah == x \div 1000
              al == x % 1000
              bh == y \div 1000
              bl == y % 1000
              mid == ah * bl + al * bh
              low == (mid % 1000) * 1000 + al * bl
          IN  <<ah * bh + mid \div 1000 + low \div ONE, low % ONE>>
          : x \in {a}, y \in {b} })

\* long division: q is the quotient so far, r the remainder, n the number
\* of decimal digits still to produce
RECURSIVE DivDigits(_, _, _, _)
DivDigits(q, r, b, n) ==
    IF n = 0 THEN q
    ELSE The({ DivDigits(q0 * 10 + d \div b, d % b, b, n - 1)
               : q0 \in {q}, d \in {r * 10} })

\* floor(a * ONE / b) for a >= 0, b > 0, to six decimal digits
DivFix(a, b) == The({ DivDigits(x \div y, x % y, y, 6) : x \in {a}, y \in {b} })

\* np.clip
Clip(x, lo, hi) == The({ IF v < lo THEN lo ELSE IF v > hi THEN hi ELSE v : v \in {x} })

-----------------------------------------------------------------------------
(* CONFIG *)

FPS == 20
DURATION_S == 60
TOTAL_FRAMES == FPS * DURATION_S

VT_L == (45 * ONE) \div 100
SAFE_LINE == (20 * ONE) \div 100

T1 == 20 * ONE
T2 == 20 * ONE
T3 == 20 * ONE

CRF_HEALTHY == (25 * ONE) \div 10
CRF_LOW == ONE
CRF_VNI_START_high == (12 * ONE) \div 10
CRF_VNI_START == ONE
CRF_VNI_END_low == (15 * ONE) \div 10
CRF_VNI_END_healthy == (25 * ONE) \div 10
CRF_VNI_END == (18 * ONE) \div 10

\* the strain above which segment 2 shows the crack
CRACK_STRAIN == (35 * ONE) \div 100

GREEN == "#dcfce7"
RED == "#fee2e2"

-----------------------------------------------------------------------------
(* HELPERS *)

PI == 3141593

\* number of terms of the cosine series after the leading 1
CosTerms == 6

\* Horner form of 1 - z/2! + z^2/4! - ..., z = y^2
RECURSIVE CosHorner(_, _)
CosHorner(z, k) ==
    IF k > CosTerms THEN ONE
    ELSE ONE - MulFix(z, CosHorner(z, k + 1)) \div ((2 * k - 1) * (2 * k))

\* cos(y) for 0 <= y <= pi/2
CosSeries(y) == The({ CosHorner(z, 1) : z \in {MulFix(y, y)} })

\* cos(pi * x) for 0 <= x <= 1, folded at x = 1/2
CosPi(x) ==
    The({ IF 2 * v <= ONE THEN CosSeries(MulFix(PI, v))
          ELSE 0 - CosSeries(MulFix(PI, ONE - v)) : v \in {x} })

\* cos(2 * pi * x) for 0 <= x <= 1, folded at x = 1/2
Cos2Pi(x) ==
    The({ IF 2 * v <= ONE THEN CosPi(2 * v) ELSE CosPi(2 * (ONE - v)) : v \in {x} })

smoothstep_wave(x) == (ONE - Cos2Pi(Clip(x, 0, ONE))) \div 2
smoothstep(x) == (ONE - CosPi(Clip(x, 0, ONE))) \div 2

breathing_wave(p) == (ONE - Cos2Pi(p)) \div 2

\* f"{x:.1f}": the number of tenths shown
fmt_L(x) == (x + ONE \div 20) \div (ONE \div 10)

\* f"{x:.2f}": the number of hundredths shown
fmt_strain(x) == IF x = INF THEN INF ELSE (x + ONE \div 200) \div (ONE \div 100)

\* the colour of the strain value text
ValueColour(s) == IF s <= SAFE_LINE THEN "#166534" ELSE "#b91c1c"

-----------------------------------------------------------------------------
(* MAIN RENDER: the values of one frame *)

\* t = i / FPS
TimeOf(k) == (k * ONE) \div FPS

\* phase01 = (t % 4.0) / 4.0
Phase01Of(tt) == (tt % (4 * ONE)) \div 4

SegOf_late(tt) == IF tt <= T1 THEN 1 ELSE IF tt <= T1 + T2 THEN 2 ELSE 3
\* if t < T1 / elif t < T1 + T2 / else
SegOf(tt) == IF tt < T1 THEN 1 ELSE IF tt < T1 + T2 THEN 2 ELSE 3

\* x = (t - (T1 + T2)) / T3
VniProgress(tt) == DivFix(tt - (T1 + T2), T3)

CRF_FLOOR == ONE \div 1000
CrfOf_floored(sg, tt) ==
    LET raw == IF sg = 1 THEN cfg.CRF_HEALTHY
               ELSE IF sg = 2 THEN cfg.CRF_LOW
               ELSE cfg.CRF_VNI_START
                    + MulFix(cfg.CRF_VNI_END - cfg.CRF_VNI_START,
                             smoothstep(VniProgress(tt)))
    IN  IF raw < CRF_FLOOR THEN CRF_FLOOR ELSE raw
\* the crf assigned in each branch; segment 3 eases from START to END
CrfOf(sg, tt) ==
    IF sg = 1 THEN cfg.CRF_HEALTHY
    ELSE IF sg = 2 THEN cfg.CRF_LOW
    ELSE cfg.CRF_VNI_START
         + MulFix(cfg.CRF_VNI_END - cfg.CRF_VNI_START, smoothstep(VniProgress(tt)))

\* In segments 1 and 2 crf is a Python float and vt / crf raises
\* ZeroDivisionError when crf is 0; in segment 3 crf is a numpy float64 and
\* the quotient is inf.
Raises(sg, c) == sg # 3 /\ c = 0

StrainOf_product(v, c) == MulFix(v, c)
\* strain = vt / crf
StrainOf(v, c) == The({ IF d = 0 THEN INF ELSE DivFix(v, d) : d \in {c} })

CrackOf_anywhere(sg, s) == s > CRACK_STRAIN
CrackOf_sticky(sg, s) == IF sg = 2 THEN s > CRACK_STRAIN ELSE crack
\* crack = True if strain > 0.35 else False (segment 2); False elsewhere
CrackOf(sg, s) == IF sg = 2 THEN s > CRACK_STRAIN ELSE FALSE

BadgeOf(sg) == IF sg = 2 THEN RED ELSE GREEN

\* the values the three draw_* calls and the writer receive
Frame ==
    [i |-> i, t |-> t, phase01 |-> phase01, seg |-> seg, crf |-> crf, vt |-> vt,
     strain |-> strain, crack |-> crack, badge_col |-> badge_col]

NoFrame ==
    [i |-> -1, t |-> 0, phase01 |-> 0, seg |-> 0, crf |-> 0, vt |-> 0,
     strain |-> 0, crack |-> FALSE, badge_col |-> ""]

\* frame indices whose recomputation is compared: the first and last frame
\* of each segment and one frame inside the easing
Probe == {0, 399, 400, 799, 800, 1000, 1199}

-----------------------------------------------------------------------------
(* The script as a state machine *)

Config ==
    [CRF_HEALTHY |-> CRF_HEALTHY, CRF_LOW |-> CRF_LOW,
     CRF_VNI_START |-> CRF_VNI_START, CRF_VNI_END |-> CRF_VNI_END, VT_L |-> VT_L]

Start ==
    /\ pc = "for"
    /\ nxt = 0
    /\ i = 0 /\ t = 0 /\ phase01 = 0 /\ seg = 0 /\ crf = 0 /\ vt = 0
    /\ strain = 0 /\ crack = FALSE /\ badge_col = ""
    /\ appended = 0 /\ last = NoFrame /\ closed = FALSE
    /\ memo = [k \in Probe |-> NoFrame]

Init == cfg = Config /\ Start

ForNext_inclusive ==
    /\ pc = "for"
    /\ IF nxt <= TOTAL_FRAMES
       THEN i' = nxt /\ nxt' = nxt + 1 /\ pc' = "compute"
       ELSE pc' = "close" /\ UNCHANGED <<i, nxt>>
    /\ UNCHANGED <<cfg, t, phase01, seg, crf, vt, strain, crack, badge_col,
                   appended, last, closed, memo>>
\* for i in range(TOTAL_FRAMES)
ForNext ==
    /\ pc = "for"
    /\ IF nxt < TOTAL_FRAMES
       THEN i' = nxt /\ nxt' = nxt + 1 /\ pc' = "compute"
       ELSE pc' = "close" /\ UNCHANGED <<i, nxt>>
    /\ UNCHANGED <<cfg, t, phase01, seg, crf, vt, strain, crack, badge_col,
                   appended, last, closed, memo>>

\* the body up to the end of the if / elif / else
ComputeFrame ==
    /\ pc = "compute"
    /\ LET tt == TimeOf(i)
           sg == SegOf(tt)
           c  == CrfOf(sg, tt)
           v  == cfg.VT_L
       IN  /\ t' = tt
           /\ phase01' = Phase01Of(tt)
           /\ seg' = sg
           /\ crf' = c
           /\ vt' = v
           /\ IF Raises(sg, c)
              THEN pc' = "crashed" /\ UNCHANGED <<strain, crack, badge_col>>
              ELSE /\ strain' = StrainOf(v, c)
                   /\ crack' = CrackOf(sg, StrainOf(v, c))
                   /\ badge_col' = BadgeOf(sg)
                   /\ pc' = "draw"
    /\ UNCHANGED <<cfg, nxt, i, appended, last, closed, memo>>

\* fig.clf() ... draw_text_panel, draw_lung, draw_strain_bar, writer.append_data
DrawFrame ==
    /\ pc = "draw"
    /\ appended' = appended + 1
    /\ last' = Frame
    /\ memo' = IF i \in Probe /\ memo[i] = NoFrame
               THEN [memo EXCEPT ![i] = Frame] ELSE memo
    /\ pc' = "for"
    /\ UNCHANGED <<cfg, nxt, i, t, phase01, seg, crf, vt, strain, crack,
                   badge_col, closed>>

\* writer.close()
Close ==
    /\ pc = "close"
    /\ closed' = TRUE
    /\ pc' = "done"
    /\ UNCHANGED <<cfg, nxt, i, t, phase01, seg, crf, vt, strain, crack,
                   badge_col, appended, last, memo>>

Next == ForNext \/ ComputeFrame \/ DrawFrame \/ Close

Spec == Init /\ [][Next]_vars

\* the script runs to completion: no step waits on anything
FairSpec == Spec /\ WF_vars(Next)

-----------------------------------------------------------------------------
(* The same loop with the CONFIG constants left open (SpecCfg), and the    *)
(* loop body applied to frame indices in any order, repeatedly (SpecReplay) *)

Configs ==
    [CRF_HEALTHY : {0, CRF_HEALTHY}, CRF_LOW : {0, CRF_LOW},
     CRF_VNI_START : {CRF_VNI_START}, CRF_VNI_END : {CRF_VNI_END}, VT_L : {VT_L}]

InitCfg == cfg \in Configs /\ Start

SpecCfg == InitCfg /\ [][Next]_vars

\* number of frames one replay computes
MaxReplay == 5

\* the loop header yielding an arbitrary probed index
ForAny ==
    /\ pc = "for"
    /\ nxt < MaxReplay
    /\ \E k \in Probe : i' = k
    /\ nxt' = nxt + 1
    /\ pc' = "compute"
    /\ UNCHANGED <<cfg, t, phase01, seg, crf, vt, strain, crack, badge_col,
                   appended, last, closed, memo>>

NextReplay == ForAny \/ ComputeFrame \/ DrawFrame

SpecReplay == Init /\ [][NextReplay]_vars

-----------------------------------------------------------------------------
(* Properties *)

Drawing == pc = "draw"

LexLE(p, q) == p[1] < q[1] \/ (p[1] = q[1] /\ p[2] <= q[2])

\* q = floor(a * ONE / b), stated by multiplication
IsQuotient(q, a, b) ==
    /\ LexLE(MulWide(q, b), <<a, 0>>)
    /\ ~LexLE(MulWide(q + 1, b), <<a, 0>>)

\* C1: in every frame handed to the renderers and to the writer, strain is
\* the quotient of that frame's tidal volume by that frame's crf, and it is
\* finite and non-negative.
C1_StrainIsQuotient ==
    /\ Drawing =>
         /\ strain >= 0 /\ strain # INF
         /\ crf > 0
         /\ IsQuotient(strain, vt, crf)
    /\ last # NoFrame =>
         /\ last.strain >= 0 /\ last.strain # INF
         /\ IsQuotient(last.strain, last.vt, last.crf)

C1_Witness == Drawing /\ i = 1000 /\ seg = 3 /\ strain > 0 /\ strain < vt

\* C2: every frame is in exactly one phase, decided by t against T1 and
\* T1 + T2; from one frame to the next the phase either stays or advances
\* by one, it advances exactly at the frame with t = T1 (index 20 * FPS) and
\* the frame with t = T1 + T2 (index 40 * FPS), the first frame is healthy
\* and the last is vni.
C2_PhasePartition ==
    /\ Drawing =>
         /\ seg \in {1, 2, 3}
         /\ (seg = 1) <=> (t < T1)
         /\ (seg = 2) <=> (T1 <= t /\ t < T1 + T2)
         /\ (seg = 3) <=> (t >= T1 + T2)
         /\ (t = T1) <=> (i = 20 * FPS)
         /\ (t = T1 + T2) <=> (i = 40 * FPS)
         /\ i = 0 => seg = 1
         /\ last # NoFrame =>
              /\ seg = last.seg \/ seg = last.seg + 1
              /\ (seg # last.seg) <=> (t = T1 \/ t = T1 + T2)
    /\ pc = "done" => last.seg = 3

C2_Witness == Drawing /\ t = T1 + T2 /\ seg = 3 /\ last.seg = 2

\* C3 (as claimed): the crack flag is false outside low_crf and false at the
\* start of low_crf.
C3_CrackOnlyAfterThreshold ==
    Drawing =>
      /\ seg # 2 => ~crack
      /\ (seg = 2 /\ t = T1) => ~crack

\* C3 (amended): the crack flag is false in every frame outside low_crf; in
\* low_crf it is true exactly when the strain exceeds 0.35, which with the
\* configured constants is every low_crf frame from the first one on.
C3_CrackIffLowCrf ==
    Drawing =>
      /\ seg # 2 => ~crack
      /\ seg = 2 => (crack <=> strain > CRACK_STRAIN)
      /\ seg = 2 => crack

C3_Witness == Drawing /\ seg = 2 /\ t = T1 /\ crack

Positive(c) ==
    /\ c.CRF_HEALTHY > 0 /\ c.CRF_LOW > 0
    /\ c.CRF_VNI_START > 0 /\ c.CRF_VNI_END >= c.CRF_VNI_START

C5_VniMonotone ==
    (Drawing /\ seg = 3) =>
      /\ CRF_VNI_START <= crf /\ crf <= CRF_VNI_END
      /\ last.seg = 3 => (crf >= last.crf /\ strain <= last.strain)

C5_Witness ==
    Drawing /\ seg = 3 /\ last.seg = 3 /\ crf > last.crf /\ strain < last.strain

\* C6: the first vni frame has the crf of the last low_crf frame, CRF_LOW
\* (CRF_VNI_START = CRF_LOW and the easing starts at 0), while the first
\* low_crf frame has crf CRF_LOW right after a frame with crf CRF_HEALTHY.
C6_CrfContinuity ==
    Drawing =>
      /\ (last.seg = 2 /\ seg = 3) =>
           (crf = last.crf /\ last.crf = CRF_LOW /\ smoothstep(VniProgress(t)) = 0)
      /\ (last.seg = 1 /\ seg = 2) =>
           (last.crf = CRF_HEALTHY /\ crf = CRF_LOW /\ crf # last.crf)

C6_Witness == Drawing /\ last.seg = 2 /\ seg = 3 /\ crf = last.crf

C7_Constants ==
    /\ seg = 1 => (crf = (25 * ONE) \div 10 /\ vt = (45 * ONE) \div 100
                   /\ strain = (18 * ONE) \div 100)
    /\ seg = 2 => (crf = ONE /\ strain = (45 * ONE) \div 100)
    /\ (seg = 3 /\ t = T1 + T2) => (crf = ONE /\ strain = (45 * ONE) \div 100)

\* C7 (as claimed): ... and the last frame of the vni phase has crf 1.8 and
\* strain 0.25.
C7_ReachesTarget ==
    Drawing =>
      /\ C7_Constants
      /\ i = TOTAL_FRAMES - 1 =>
           (crf = (18 * ONE) \div 10 /\ strain = (25 * ONE) \div 100)

\* C7 (amended): healthy frames have crf 2.5, vt 0.45, strain 0.18; low_crf
\* frames have crf 1.0, strain 0.45; the vni phase starts at crf 1.0 / strain
\* 0.45 and its last frame (t = 59.95 s) is within 0.00002 of the target
\* without attaining it: crf < 1.8 and strain > 0.25, shown rounded as
\* "1,8 L" and "0,25".  The easing attains the target only at x = 1.
C7_ApproachesTarget ==
    /\ smoothstep(ONE) = ONE
    /\ Drawing =>
         /\ C7_Constants
         /\ i = TOTAL_FRAMES - 1 =>
              /\ crf < (18 * ONE) \div 10
              /\ (18 * ONE) \div 10 - crf <= 20
              /\ strain > (25 * ONE) \div 100
              /\ strain - (25 * ONE) \div 100 <= 20
              /\ fmt_L(crf) = 18
              /\ fmt_strain(strain) = 25

C7_Witness == Drawing /\ i = TOTAL_FRAMES - 1 /\ seg = 3

C8_Step ==
    /\ appended' # appended =>
         /\ appended' = appended + 1
         /\ ~closed
         /\ i = appended
         /\ t = TimeOf(i)
         /\ last' = Frame
    /\ (closed' /\ ~closed) => appended = TOTAL_FRAMES
    /\ closed => (closed' /\ appended' = appended)
    /\ i' # i => (i' = i + 1 /\ last.i = i)

\* C8: the loop terminates with the writer closed after exactly TOTAL_FRAMES
\* appends; the k-th append carries the frame of index k - 1, built from the
\* state computed for that index before the next index starts; the close
\* comes after the last append and nothing is appended after it.
C8_Terminates ==
    /\ <>(pc = "done" /\ closed /\ appended = TOTAL_FRAMES
          /\ last.i = TOTAL_FRAMES - 1)
    /\ [][C8_Step]_vars

C8_Witness ==
    pc = "done" /\ closed /\ appended = FPS * DURATION_S /\ last.i = appended - 1

\* C9: whatever frame was computed before, and however often an index is
\* recomputed, the state computed for an index is the state first computed
\* for it.
C9_PureInIndex ==
    (Drawing /\ memo[i] # NoFrame) => memo[i] = Frame

C9_Witness ==
    /\ Drawing /\ memo[i] # NoFrame /\ nxt >= 4
    /\ last.i > i /\ last.seg # seg /\ last.crack # crack

\* C10: the strain is at or below SAFE_LINE (green value text) exactly in
\* the healthy frames; in every low_crf and vni frame it is above SAFE_LINE
\* (red value text), although the vni badge is green.
C10_SafeOnlyHealthy ==
    Drawing =>
      /\ (strain <= SAFE_LINE) <=> (seg = 1)
      /\ (ValueColour(strain) = "#166534") <=> (seg = 1)
      /\ seg = 3 => (badge_col = GREEN /\ ValueColour(strain) = "#b91c1c")
      /\ seg = 2 => badge_col = RED

C10_Witness ==
    Drawing /\ i = TOTAL_FRAMES - 1 /\ badge_col = GREEN /\ strain > SAFE_LINE

=============================================================================
